---------------------------- MODULE Spec2Model ----------------------------
(***************************************************************************)
(* Model of the Men's Tration backend (src/main.py): the three request     *)
(* handlers calculate_cycle, get_ideas and explain, with their helpers     *)
(* parse_date, day_in_cycle and phase_for_day.                             *)
(*                                                                         *)
(* A datetime is an integer number of ticks since midnight of the first    *)
(* representable day; a day has TicksPerDay ticks; a timedelta of n days   *)
(* is n * TicksPerDay ticks.  The representable range of datetime is       *)
(* DateMin .. DateMax and arithmetic that leaves it raises OverflowError,  *)
(* as Python's datetime does.  A date string "YYYY-MM-DD" is the tuple     *)
(* <<year, month, day>>; a text string whose case matters is a sequence    *)
(* of one-character strings.                                               *)
(***************************************************************************)
EXTENDS Integers, Sequences, FiniteSets, TLC

VARIABLES pc, req, cycle_length, start, today, idx, phase, next_start, iters,
          next_period_start, docs, lookups, failed, resp

vars == <<pc, req, cycle_length, start, today, idx, phase, next_start, iters,
          next_period_start, docs, lookups, failed, resp>>

---------------------------------------------------------------------------
(* Bounds of the model *)

\* ticks in a day (the code's clock has 86400 * 10^6 microseconds in a day)
TicksPerDay == 2
\* last representable day, counted from the first one (day 0)
MaxDay == 36
\* the negative cycle lengths a request may carry: -NegLens .. -1
NegLens == 2
\* the short cycle lengths a request may carry: 0 .. SmallLen
SmallLen == 3
\* the long cycle lengths: the default .. the default + LongExtra
LongExtra == 1
\* documents the store returns in one lookup, at most
MaxDocs == 2
\* the `limit` query parameters: 0 .. MaxLimit
MaxLimit == 1
\* the leading characters of a phase argument that may be upper case
CaseBound == 2

---------------------------------------------------------------------------
(* Text *)

LowerAlpha == <<"a","b","c","d","e","f","g","h","i","j","k","l","m",
                "n","o","p","q","r","s","t","u","v","w","x","y","z">>
UpperAlpha == <<"A","B","C","D","E","F","G","H","I","J","K","L","M",
                "N","O","P","Q","R","S","T","U","V","W","X","Y","Z">>

\* str.lower() on one character
LowerChar(c) ==
    IF \E i \in 1..Len(UpperAlpha) : UpperAlpha[i] = c
    THEN LowerAlpha[CHOOSE i \in 1..Len(UpperAlpha) : UpperAlpha[i] = c]
    ELSE c

\* str.upper() on one character (used to build the inputs only)
UpperChar(c) ==
    IF \E i \in 1..Len(LowerAlpha) : LowerAlpha[i] = c
    THEN UpperAlpha[CHOOSE i \in 1..Len(LowerAlpha) : LowerAlpha[i] = c]
    ELSE c

\* str.lower()
lower(s) == [i \in 1..Len(s) |-> LowerChar(s[i])]

Period     == <<"p","e","r","i","o","d">>
Follicular == <<"f","o","l","l","i","c","u","l","a","r">>
Ovulation  == <<"o","v","u","l","a","t","i","o","n">>
Luteal     == <<"l","u","t","e","a","l">>

PhaseKeys == {Period, Follicular, Ovulation, Luteal}

---------------------------------------------------------------------------
(* Dates *)

DateMin == 0 * TicksPerDay
DateMax == MaxDay * TicksPerDay + (TicksPerDay - 1)

\* timedelta(days=n)
timedelta(n) == n * TicksPerDay

\* the year of day 0 is 2024 and day 0 is its January 1st
EpochDate == <<2024, 1, 1>>

IsLeap(y) == (y % 4 = 0 /\ y % 100 # 0) \/ y % 400 = 0

DaysInMonth(y, m) ==
    IF m = 2 THEN (IF IsLeap(y) THEN 29 ELSE 28)
    ELSE IF m \in {4, 6, 9, 11} THEN 30 ELSE 31

RECURSIVE DaysBeforeMonth(_, _)
DaysBeforeMonth(y, m) ==
    IF m <= 1 THEN 0 ELSE DaysBeforeMonth(y, m - 1) + DaysInMonth(y, m - 1)

\* what strptime(s, "%Y-%m-%d") accepts
ValidDateString(s) ==
    /\ s[2] \in 1..12
    /\ s[3] \in 1..DaysInMonth(s[1], s[2])

\* the day number of a valid date string of the epoch year
DayOfString(s) == DaysBeforeMonth(s[1], s[2]) + s[3] - 1

RECURSIVE FormatFrom(_, _, _)
FormatFrom(y, m, rem) ==
    IF rem < DaysInMonth(y, m) THEN <<y, m, rem + 1>>
    ELSE IF m = 12 THEN FormatFrom(y + 1, 1, rem - DaysInMonth(y, m))
    ELSE FormatFrom(y, m + 1, rem - DaysInMonth(y, m))

\* datetime.strftime("%Y-%m-%d"): the calendar date, the time of day dropped
strftime(t) == FormatFrom(EpochDate[1], EpochDate[2], t \div TicksPerDay)

\* parse_date: the datetime at midnight of the date; the 400 is the caller's
parse_date(s) == DayOfString(s) * TicksPerDay

---------------------------------------------------------------------------
(* The cycle calculator *)

\* int.__mod__ on a non-zero divisor: the result has the divisor's sign
PyMod(a, b) == IF b > 0 THEN a % b ELSE -((-a) % (-b))

\* a remainder that truncates towards zero instead (C's %)
TruncMod(a, b) ==
    LET m == IF b > 0 THEN b ELSE -b
    IN  IF a >= 0 THEN a % m ELSE -((-a) % m)

\* timedelta.days: whole days, rounded down
days(delta) == delta \div TicksPerDay

\* day_in_cycle with the truncating remainder
day_in_cycle_floor_broken(cycle_start, len, target_date) ==
    TruncMod(days(target_date - cycle_start), len)

day_in_cycle(cycle_start, len, target_date) ==
    PyMod(days(target_date - cycle_start), len)

PHASES == << <<0, 5, Period>>, <<6, 13, Follicular>>,
             <<14, 15, Ovulation>>, <<16, 27, Luteal>> >>

RECURSIVE PhaseScan(_, _)
PhaseScan(i, day_index) ==
    IF i > Len(PHASES) THEN Luteal
    ELSE IF PHASES[i][1] <= day_index /\ day_index <= PHASES[i][2]
         THEN PHASES[i][3]
         ELSE PhaseScan(i + 1, day_index)

\* the scan with the end of each range excluded
RECURSIVE PhaseScanExclusive(_, _)
PhaseScanExclusive(i, day_index) ==
    IF i > Len(PHASES) THEN Luteal
    ELSE IF PHASES[i][1] <= day_index /\ day_index < PHASES[i][2]
         THEN PHASES[i][3]
         ELSE PhaseScanExclusive(i + 1, day_index)

phase_for_day_exclusive_end(day_index) == PhaseScanExclusive(1, day_index)

phase_for_day(day_index) == PhaseScan(1, day_index)

\* datetime + timedelta leaves the representable range: OverflowError
Overflows(t) == t < DateMin \/ t > DateMax

\* the while condition with < for <=
LoopCondStrict(ns, len, now) == ns + timedelta(len) < now

\* the while condition of the next-start search, where it does not overflow
LoopCond(ns, len, now) == ns + timedelta(len) <= now

\* the tie-break that never advances
NextPeriodNoAdvance(ns, len, now) == ns

\* the tie-break after the search

NextPeriod(ns, len, now) == IF ns >= now THEN ns ELSE ns + timedelta(len)

\* the whole search loop, from next_start = ns: the next_start at its end, or
\* -1 when the datetime arithmetic overflows (len is not 0 here)
RECURSIVE SearchNextStart(_, _, _)
SearchNextStart(ns, len, now) ==
    IF Overflows(ns + timedelta(len)) THEN 0 - 1
    ELSE IF LoopCond(ns, len, now)
         THEN SearchNextStart(ns + timedelta(len), len, now)
         ELSE ns

\* calculate_cycle from the parsed start on, as a function of its inputs
CalcOutcome(st, len, now) ==
    IF len = 0 THEN [status |-> 500, body |-> "ZeroDivisionError"]
    ELSE LET ns == SearchNextStart(st, len, now)
         IN  IF ns < 0 THEN [status |-> 500, body |-> "OverflowError"]
             ELSE [status |-> 200,
                   body |-> [today |-> strftime(now),
                             day_in_cycle |-> day_in_cycle(st, len, now),
                             phase |-> phase_for_day(day_in_cycle(st, len, now)),
                             next_period_start |->
                                 strftime(NextPeriod(ns, len, now)),
                             cycle_length |-> len]]

DefaultCycleLength == 28

CycleLengths ==
    ((0 - NegLens) .. SmallLen)
      \cup (DefaultCycleLength .. (DefaultCycleLength + LongExtra))

\* the cycle_length field of a request body
LengthFields ==
    {[kind |-> "int", val |-> n] : n \in CycleLengths}
      \cup {[kind |-> "absent", val |-> 0], [kind |-> "notint", val |-> 0]}

\* the cycle_start field of a request body: a well-formed date of the
\* representable range, or a string strptime rejects
DateStrings ==
    {s \in {<<EpochDate[1], m, d>> : m \in 0..13, d \in 0..32} :
        ValidDateString(s) => DayOfString(s) <= MaxDay}

Instants == DateMin .. DateMax

NoReq  == [handler |-> "none"]
NoResp == [status |-> 0]

Init ==
    /\ pc = "idle"
    /\ req = NoReq
    /\ cycle_length = 0
    /\ start = 0
    /\ today = 0
    /\ idx = 0
    /\ phase = <<>>
    /\ next_start = 0
    /\ iters = 0
    /\ next_period_start = 0
    /\ docs = <<>>
    /\ lookups = 0
    /\ failed = FALSE
    /\ resp = NoResp

Finish(status, body) ==
    /\ pc' = "done"
    /\ resp' = [status |-> status, body |-> body]

\* CycleRequest: the body is validated before the handler runs
CalcRequest ==
    /\ pc = "idle"
    /\ \E s \in DateStrings, l \in LengthFields :
         /\ req' = [handler |-> "calculate", cycle_start |-> s, len |-> l]
         /\ IF l.kind = "notint"
            THEN /\ Finish(422, "cycle_length is not an integer")
                 /\ UNCHANGED cycle_length
            ELSE /\ cycle_length' =
                      IF l.kind = "absent" THEN DefaultCycleLength ELSE l.val
                 /\ pc' = "calc_parse"
                 /\ UNCHANGED resp
    /\ UNCHANGED <<start, today, idx, phase, next_start, iters,
                   next_period_start, docs, lookups, failed>>

\* start = parse_date(data.cycle_start); today = datetime.utcnow()
CalcParse ==
    /\ pc = "calc_parse"
    /\ IF ValidDateString(req.cycle_start)
       THEN /\ start' = parse_date(req.cycle_start)
            /\ \E now \in Instants : today' = now
            /\ pc' = "calc_day"
            /\ UNCHANGED resp
       ELSE /\ Finish(400, "Date must be YYYY-MM-DD")
            /\ UNCHANGED <<start, today>>
    /\ UNCHANGED <<req, cycle_length, idx, phase, next_start, iters,
                   next_period_start, docs, lookups, failed>>

\* idx = day_in_cycle(start, data.cycle_length, today)
CalcDay ==
    /\ pc = "calc_day"
    /\ IF cycle_length = 0
       THEN /\ Finish(500, "ZeroDivisionError")
            /\ UNCHANGED idx
       ELSE /\ idx' = day_in_cycle(start, cycle_length, today)
            /\ pc' = "calc_phase"
            /\ UNCHANGED resp
    /\ UNCHANGED <<req, cycle_length, start, today, phase, next_start, iters,
                   next_period_start, docs, lookups, failed>>

\* phase = phase_for_day(idx); next_start = start
CalcPhase ==
    /\ pc = "calc_phase"
    /\ phase' = phase_for_day(idx)
    /\ next_start' = start
    /\ iters' = 0
    /\ pc' = "calc_loop"
    /\ UNCHANGED <<req, cycle_length, start, today, idx, next_period_start,
                   docs, lookups, failed, resp>>

\* one evaluation of the while condition, and the body when it is true
CalcLoop ==
    /\ pc = "calc_loop"
    /\ IF Overflows(next_start + timedelta(cycle_length))
       THEN /\ Finish(500, "OverflowError")
            /\ UNCHANGED <<next_start, iters>>
       ELSE IF LoopCond(next_start, cycle_length, today)
       THEN /\ next_start' = next_start + timedelta(cycle_length)
            /\ iters' = iters + 1
            /\ UNCHANGED <<pc, resp>>
       ELSE /\ pc' = "calc_next"
            /\ UNCHANGED <<next_start, iters, resp>>
    /\ UNCHANGED <<req, cycle_length, start, today, idx, phase,
                   next_period_start, docs, lookups, failed>>

\* next_period_start = next_start if next_start >= today else ...
CalcNext ==
    /\ pc = "calc_next"
    /\ next_period_start' = NextPeriod(next_start, cycle_length, today)
    /\ pc' = "calc_return"
    /\ UNCHANGED <<req, cycle_length, start, today, idx, phase, next_start,
                   iters, docs, lookups, failed, resp>>

\* the response body
CalcReturn ==
    /\ pc = "calc_return"
    /\ Finish(200, [today |-> strftime(today),
                    day_in_cycle |-> idx,
                    phase |-> phase,
                    next_period_start |-> strftime(next_period_start),
                    cycle_length |-> cycle_length])
    /\ UNCHANGED <<req, cycle_length, start, today, idx, phase, next_start,
                   iters, next_period_start, docs, lookups, failed>>

---------------------------------------------------------------------------
(* The idea lookup *)

Idea(ph, title, description) ==
    [phase |-> ph, title |-> title, description |-> description]

\* seeded ideas that leave the luteal phase out
FallbackWithoutLuteal ==
    << Idea(Period, "Comfort kit",
            "Heat pad, chocolate, tea, low-key movie night"),
       Idea(Period, "Take chores off her plate",
            "Run errands, cook, tidy up without being asked"),
       Idea(Follicular, "Plan a fun date",
            "She may feel more energetic - try a new activity together"),
       Idea(Ovulation, "Hype her up",
            "Compliments and quality time - she'll likely feel confident") >>

\* the seeded ideas of the except branch
FALLBACK_IDEAS ==
    << Idea(Period, "Comfort kit",
            "Heat pad, chocolate, tea, low-key movie night"),
       Idea(Period, "Take chores off her plate",
            "Run errands, cook, tidy up without being asked"),
       Idea(Follicular, "Plan a fun date",
            "She may feel more energetic - try a new activity together"),
       Idea(Ovulation, "Hype her up",
            "Compliments and quality time - she'll likely feel confident"),
       Idea(Luteal, "Gentle support",
            "Be patient, offer snacks, suggest cozy plans") >>

InternalFields == {"_id", "created_at", "updated_at"}

\* documents as the store holds them: the idea's fields and, on some, the
\* store's own
StoredDocs ==
    { Idea(Luteal, "Tea", "Bring tea")
        @@ [f \in InternalFields |-> "internal"],
      Idea(Period, "Walk", "Go for a walk") @@ [f \in {"_id"} |-> "internal"],
      Idea(Ovulation, "Dance", "Go dancing") @@ [f \in {"tags"} |-> "vibe"] }

\* what one successful lookup may return
StoreResults ==
    UNION {[1..n -> StoredDocs] : n \in 0..MaxDocs}

\* the optional `phase` query parameter: None, or a string
NonePhase == [some |-> FALSE, val |-> <<>>]
PhaseParams ==
    {NonePhase} \cup {[some |-> TRUE, val |-> v] : v \in PhaseKeys \cup {<<>>}}

\* filter_dict = {"phase": phase} if phase else {}
FilterDict(p) ==
    IF p.some /\ p.val # <<>> THEN [phase |-> p.val] ELSE <<>>

\* dict.pop(k, None)
Pop(d, k) == [f \in DOMAIN d \ {k} |-> d[f]]

StripInternal(d) == Pop(Pop(Pop(d, "_id"), "created_at"), "updated_at")

IdeasRequest ==
    /\ pc = "idle"
    /\ \E p \in PhaseParams, n \in 0..MaxLimit :
         req' = [handler |-> "ideas", phase |-> p, limit |-> n,
                 filter_dict |-> FilterDict(p)]
    /\ pc' = "ideas_lookup"
    /\ UNCHANGED <<cycle_length, start, today, idx, phase, next_start, iters,
                   next_period_start, docs, lookups, failed, resp>>

\* the except branch that raises again instead of recovering
LookupFailedPropagates ==
    /\ failed' = TRUE
    /\ Finish(500, "Exception")
    /\ UNCHANGED docs

\* except Exception: docs = the seeded ideas
LookupFailed ==
    /\ failed' = TRUE
    /\ docs' = FALLBACK_IDEAS
    /\ pc' = "ideas_strip"
    /\ UNCHANGED resp

\* docs = get_documents("idea", filter_dict=filter_dict, limit=limit)
LookupReturned ==
    /\ \E r \in StoreResults : docs' = r
    /\ pc' = "ideas_strip"
    /\ UNCHANGED <<failed, resp>>

\* the try statement: one call of the store, which returns or raises
IdeasLookup ==
    /\ pc = "ideas_lookup"
    /\ lookups' = lookups + 1
    /\ \/ LookupReturned
       \/ LookupFailed
    /\ UNCHANGED <<req, cycle_length, start, today, idx, phase, next_start,
                   iters, next_period_start>>

\* the internal fields are popped from every document; {"items": docs}
IdeasReturn ==
    /\ pc = "ideas_strip"
    /\ docs' = [i \in 1..Len(docs) |-> StripInternal(docs[i])]
    /\ Finish(200, [items |-> docs'])
    /\ UNCHANGED <<req, cycle_length, start, today, idx, phase, next_start,
                   iters, next_period_start, lookups, failed>>

---------------------------------------------------------------------------
(* The phase explainer *)

\* the keys of the summaries dict
SummaryKeys == {Period, Follicular, Ovulation, Luteal}

summaries(ph) ==
    CASE ph = Period ->
           "Bleeding phase. Energy may be lower; comfort and patience go a long way."
      [] ph = Follicular ->
           "Rising hormones and energy. Great for plans, workouts, creativity."
      [] ph = Ovulation ->
           "Peak fertility. Confidence and social energy often highest."
      [] ph = Luteal ->
           "PMS window. Sensitivity may rise - opt for calm, reassurance, and help."

tips_map(ph) ==
    CASE ph = Period ->
           << "Offer heat pad, cozy foods, and space if needed",
              "Keep plans flexible and low-pressure",
              "Proactively handle chores and logistics" >>
      [] ph = Follicular ->
           << "Suggest a new activity or date",
              "Encourage goals and celebrate progress",
              "Share optimistic plans - she may be more up for it" >>
      [] ph = Ovulation ->
           << "Give genuine compliments - she may feel her best",
              "Plan social time or a dress-up night",
              "Be playful and confident" >>
      [] ph = Luteal ->
           << "Be patient; validate feelings without fixing right away",
              "Keep snacks and water handy; offer gentle support",
              "Avoid big conflicts - focus on comfort and reassurance" >>

\* the phase arguments: the four keys and some other words, each with any of
\* its first CaseBound letters in upper case
Words ==
    PhaseKeys \cup { <<>>, <<"i","n","v","a","l","i","d">>,
                     <<"p","e","r","i","o","d","s">>,
                     <<"l","u","t","e","a","l"," ">> }

Cased(w, ups) == [i \in 1..Len(w) |-> IF i \in ups THEN UpperChar(w[i]) ELSE w[i]]

PhaseArgs ==
    {Cased(w, ups) : w \in Words, ups \in SUBSET (1..CaseBound)}

\* the argument compared as it was given
ExplainKeyAsGiven(p) == p

\* phase = phase.lower()
ExplainKey(p) == lower(p)

ExplainRequest ==
    /\ pc = "idle"
    /\ \E p \in PhaseArgs : req' = [handler |-> "explain", phase |-> p]
    /\ pc' = "explain_run"
    /\ UNCHANGED <<cycle_length, start, today, idx, phase, next_start, iters,
                   next_period_start, docs, lookups, failed, resp>>

Explain ==
    /\ pc = "explain_run"
    /\ phase' = ExplainKey(req.phase)
    /\ IF phase' \notin SummaryKeys
       THEN Finish(400, "Invalid phase. Use: period, follicular, ovulation, luteal")
       ELSE Finish(200, [phase |-> phase',
                         summary |-> summaries(phase'),
                         tips |-> tips_map(phase')])
    /\ UNCHANGED <<req, cycle_length, start, today, idx, next_start, iters,
                   next_period_start, docs, lookups, failed>>

---------------------------------------------------------------------------
\* the response is sent and the next request is awaited
Respond ==
    /\ pc = "done"
    /\ pc' = "idle"
    /\ req' = NoReq
    /\ cycle_length' = 0
    /\ start' = 0
    /\ today' = 0
    /\ idx' = 0
    /\ phase' = <<>>
    /\ next_start' = 0
    /\ iters' = 0
    /\ next_period_start' = 0
    /\ docs' = <<>>
    /\ lookups' = 0
    /\ failed' = FALSE
    /\ resp' = NoResp

Next ==
    \/ CalcRequest
    \/ CalcParse
    \/ CalcDay
    \/ CalcPhase
    \/ CalcLoop
    \/ CalcNext
    \/ CalcReturn
    \/ IdeasRequest
    \/ IdeasLookup
    \/ IdeasReturn
    \/ ExplainRequest
    \/ Explain
    \/ Respond

Spec == Init /\ [][Next]_vars

\* a handler, once started, runs to its response
FairSpec == Spec /\ WF_vars(Next)

---------------------------------------------------------------------------
(* Properties *)

CalcDone == req.handler = "calculate" /\ pc = "done"
CalcOk   == CalcDone /\ resp.status = 200

\* the calendar day number of an instant, read off its formatted date
DayOf(t) == DayOfString(strftime(t))

\* the step actions and the function of the inputs agree on every response
StepsAgreeWithOutcome ==
    (CalcDone /\ resp.status \in {200, 500})
        => resp = CalcOutcome(start, cycle_length, today)

\* C1: for a positive cycle_length, day_in_cycle is the difference in whole
\* days between the reference date and cycle_start, reduced modulo
\* cycle_length: it lies in 0 .. cycle_length - 1 and differs from the
\* difference by a multiple of cycle_length, whether the reference is before,
\* on or after cycle_start.
C1_DayInCycleIsModulo ==
    (req.handler = "calculate" /\ cycle_length >= 1
       /\ (pc \in {"calc_phase", "calc_loop", "calc_next", "calc_return"}
             \/ CalcOk))
    => LET whole == DayOf(today) - DayOfString(req.cycle_start)
       IN  /\ idx \in 0 .. (cycle_length - 1)
           /\ \E q \in (0 - MaxDay - 1) .. (MaxDay + 1) :
                 whole = q * cycle_length + idx
           /\ CalcOk => resp.body.day_in_cycle = idx

\* C1 happens: the reference precedes cycle_start and the index is not 0
C1_Witness ==
    /\ pc = "calc_phase"
    /\ cycle_length >= 2
    /\ today < start
    /\ idx > 0

ExpectedPhase(d) ==
    IF d \in 0..5 THEN Period
    ELSE IF d \in 6..13 THEN Follicular
    ELSE IF d \in 14..15 THEN Ovulation
    ELSE Luteal

\* C2: the phase is period for day 0..5, follicular for 6..13, ovulation for
\* 14..15 and luteal for 16..27 and for every day outside the table, so every
\* response of calculate_cycle carries one of the four phase keys.
C2_PhaseTable ==
    /\ (req.handler = "calculate"
          /\ pc \in {"calc_loop", "calc_next", "calc_return"})
       => phase = ExpectedPhase(idx)
    /\ CalcOk => /\ resp.body.phase = ExpectedPhase(resp.body.day_in_cycle)
                 /\ resp.body.phase \in PhaseKeys

\* C2 happens: a day past the table (cycle_length > 28) is reported luteal
C2_Witness ==
    /\ CalcOk
    /\ resp.body.day_in_cycle = 28
    /\ resp.body.phase = Luteal

\* the latest day S + k * len (k >= 0) on or before day D, S when D < S
LatestStart(S, len, D) ==
    IF D < S THEN S
    ELSE LET ks == {k \in 0..MaxDay : S + k * len <= D}
         IN  S + len * (CHOOSE k \in ks : \A j \in ks : j <= k)

\* C3: next_period_start follows the two-branch rule on the reference date:
\* with L the latest cycle start on or before the reference date, L when
\* L >= the reference date and L + cycle_length otherwise; on the cycle_start
\* date itself the result is the cycle_start date; and for 2024-01-01, 28,
\* 2024-01-15 it is 2024-01-29.
C3_TwoBranchRule ==
    (CalcOk /\ cycle_length >= 1)
    => LET S == DayOfString(req.cycle_start)
           D == DayOfString(resp.body.today)
           L == LatestStart(S, cycle_length, D)
           expected == IF L >= D THEN L ELSE L + cycle_length
       IN  /\ resp.body.next_period_start = strftime(timedelta(expected))
           /\ D = S => resp.body.next_period_start = req.cycle_start
           /\ (req.cycle_start = <<2024, 1, 1>> /\ cycle_length = 28
                 /\ resp.body.today = <<2024, 1, 15>>)
              => resp.body.next_period_start = <<2024, 1, 29>>

\* C4: two reference instants of the same calendar day give the same
\* day_in_cycle, phase and next_period_start.
C4_SameDaySameResult ==
    (CalcOk /\ cycle_length >= 1)
    => \A t \in Instants :
         LET other == CalcOutcome(start, cycle_length, t)
         IN  (strftime(t) = strftime(today) /\ other.status = 200)
             => /\ other.body.day_in_cycle = resp.body.day_in_cycle
                /\ other.body.phase = resp.body.phase
                /\ other.body.next_period_start = resp.body.next_period_start

\* C5: a request whose cycle_length is zero or negative never reaches the
\* modulo or the search loop and is answered with a client error.
C5_NonPositiveRejected ==
    (req.handler = "calculate" /\ req.len.kind = "int" /\ req.len.val <= 0)
    => /\ pc \notin {"calc_day", "calc_phase", "calc_loop", "calc_next",
                     "calc_return"}
       /\ pc = "done" => resp.status \in {400, 422}

IdeasDone == req.handler = "ideas" /\ pc = "done"

IdeaFields == {"phase", "title", "description"}

CountPhase(items, k) == Cardinality({i \in 1..Len(items) : items[i].phase = k})

\* C6 as stated: after a failed lookup the items are 4, one per phase key,
\* each with phase, title and description and no internal field.
C6_FourFallbackEntries ==
    (IdeasDone /\ failed)
    => /\ Len(resp.body.items) = 4
       /\ \A k \in PhaseKeys : CountPhase(resp.body.items, k) = 1
       /\ \A i \in 1..Len(resp.body.items) :
            DOMAIN resp.body.items[i] = IdeaFields

\* C6 as amended: after a failed lookup the items are the 5 built-in ideas,
\* two for period and one for each of follicular, ovulation and luteal, each
\* with phase, title and description and no internal field.
C6_FiveFallbackEntries ==
    (IdeasDone /\ failed)
    => /\ resp.status = 200
       /\ Len(resp.body.items) = 5
       /\ CountPhase(resp.body.items, Period) = 2
       /\ \A k \in PhaseKeys \ {Period} : CountPhase(resp.body.items, k) = 1
       /\ \A i \in 1..Len(resp.body.items) :
            /\ DOMAIN resp.body.items[i] = IdeaFields
            /\ DOMAIN resp.body.items[i] \cap InternalFields = {}

\* C6 happens: a lookup failed and the response was built
C6_Witness ==
    /\ IdeasDone
    /\ failed
    /\ Len(resp.body.items) > 0

\* C7: every get_ideas request calls the store once, and whether the call
\* returns or raises, the response is a normal {items: [...]}: a failure is
\* neither retried nor passed on.
C7_SingleLookupTotalFallback ==
    /\ lookups <= 1
    /\ (req.handler = "ideas" /\ pc = "ideas_strip") => lookups = 1
    /\ IdeasDone => /\ lookups = 1
                    /\ resp.status = 200
                    /\ DOMAIN resp.body = {"items"}

\* C7 happens: the one lookup raised and the request completed normally
C7_Witness ==
    /\ IdeasDone
    /\ failed
    /\ lookups = 1
    /\ resp.status = 200

ExplainDone == req.handler = "explain" /\ pc = "done"

ExplainAnswers(k) ==
    /\ resp.status = 200
    /\ resp.body.phase = k
    /\ resp.body.summary = summaries(k)
    /\ Len(resp.body.tips) >= 1

\* C8 as stated: every argument that is not one of the four lowercase keys
\* gets a 400, and each of the four keys gets its phase, summary and tips.
C8_RejectsAllButLowercaseKeys ==
    ExplainDone
    => /\ req.phase \notin PhaseKeys => resp.status = 400
       /\ req.phase \in PhaseKeys => ExplainAnswers(req.phase)

\* C8 as amended: the argument is lowercased first; an argument whose
\* lowercase form is not one of the four keys gets a 400, and any other gets
\* the lowercase key, its summary and its non-empty tips.
C8_RejectsByLowercasedKey ==
    ExplainDone
    => /\ lower(req.phase) \notin PhaseKeys => resp.status = 400
       /\ lower(req.phase) \in PhaseKeys => ExplainAnswers(lower(req.phase))

\* C8 happens: an argument with an upper-case letter was answered
C8_Witness ==
    /\ ExplainDone
    /\ req.phase \notin PhaseKeys
    /\ resp.status = 200

\* C9: for cycle_length >= 1 the next_period_start of a response is not
\* before the reference instant, is cycle_start plus a whole number (>= 0) of
\* cycle lengths, and is less than one cycle length after the reference
\* instant when that is on or after cycle_start.
C9_NextStartNotInPast ==
    (CalcOk /\ cycle_length >= 1)
    => LET nps == parse_date(resp.body.next_period_start)
       IN  /\ nps >= today
           /\ \E k \in 0 .. (MaxDay + 1) :
                 nps = start + k * timedelta(cycle_length)
           /\ today >= start => nps - today < timedelta(cycle_length)

\* C9 happens: the search advanced and the tie-break added one more cycle
C9_Witness ==
    /\ CalcOk
    /\ cycle_length >= 2
    /\ iters >= 1
    /\ today > next_start
    /\ next_period_start = next_start + timedelta(cycle_length)

\* C10: for cycle_length >= 1 the search loop ends; every iteration moves
\* next_start forward; it runs no iteration when the reference precedes
\* cycle_start + cycle_length; and after it next_start + cycle_length is
\* after the reference.
C10_LoopTerminates ==
    /\ []((req.handler = "calculate" /\ cycle_length >= 1 /\ pc = "calc_next")
            => /\ next_start + timedelta(cycle_length) > today
               /\ today < start + timedelta(cycle_length) => iters = 0)
    /\ [][(pc = "calc_loop" /\ pc' = "calc_loop" /\ cycle_length >= 1)
            => (next_start' > next_start /\ next_start' <= today)]_vars
    /\ ((pc = "calc_loop" /\ cycle_length >= 1) ~> (pc # "calc_loop"))

\* C10 happens: the loop ran more than once and ended
C10_Witness ==
    /\ pc = "calc_next"
    /\ cycle_length >= 1
    /\ iters >= 2

===========================================================================
